---- MODULE Spec2Model ----
(***************************************************************************)
(* Model of backend/server.py: the identity store, the role guard and the  *)
(* event / team / submission handlers.  Every handler is an async          *)
(* coroutine: it is suspended at each `await db....` call, so each         *)
(* database call is one atomic step and the steps of requests in flight    *)
(* interleave freely.                                                      *)
(***************************************************************************)
EXTENDS Integers, FiniteSets, Sequences, TLC

VARIABLES users, events, teams, submissions, pc, req, loc, resp, now

vars == <<users, events, teams, submissions, pc, req, loc, resp, now>>
store == <<users, events, teams, submissions>>

\* ---------------------------------------------------------------- bounds
\* requests in flight at the same time
NumProcs == 2
\* documents per collection
MaxEvents == 1
MaxTeams == 2
MaxSubmissions == 2
MaxUsers == 2
\* identities in the store when one more registers beside the registered ones
WriteMaxUsers == 4
\* documents per collection when requests run one after another
SeqMaxEvents == 1
SeqMaxTeams == 2
SeqMaxSubmissions == 2
\* events and teams when one participant forms teams in several events
TeamMaxEvents == 2
TeamMaxTeams == 3
\* submissions when two participants submit
MemberMaxSubmissions == 1
\* how many store sizes the listing is checked on, the largest just above
\* to_list_length
StoreSizes == 60
\* the last hour the clock reaches
MaxClock == 26

Procs == 1..NumProcs

\* ------------------------------------------------------------ enumerations
UserRole == {"organizer", "participant", "judge"}

EventStatus == {"draft", "active", "submissions_open", "submissions_closed",
                "judging", "completed"}

\* the place of a status in the order the enumeration lists them
Rank(status) ==
    CASE status = "draft" -> 0
      [] status = "active" -> 1
      [] status = "submissions_open" -> 2
      [] status = "submissions_closed" -> 3
      [] status = "judging" -> 4
      [] status = "completed" -> 5

\* ------------------------------------------------------------ responses
Response(code, detail) == [code |-> code, detail |-> detail]
NoResp == Response(0, "")
Ok == Response(200, "ok")
\* a 200 response whose body is read by a property
Body(content) == [code |-> 200, detail |-> "ok", body |-> content]

\* the HTTPExceptions the handlers raise, under the names of the spec
TokenExpired == Response(401, "Token expired")
TokenInvalid == Response(401, "Invalid token")
InvalidAuthentication == Response(401, "Invalid authentication")
InvalidCredentials == Response(401, "Invalid credentials")
Forbidden == Response(403, "Insufficient permissions")
DuplicateIdentity == Response(400, "Email already registered")
NotFoundOrUnauthorized == Response(404, "Event not found or unauthorized")
EventNotAvailable == Response(400, "Event not available for registration")
AlreadyTeamed == Response(400, "Already part of a team for this event")
NotTeamMember == Response(403, "Not a member of this team")
SubmissionsNotOpen == Response(400, "Submissions not open for this event")
SubmissionAlreadyExists == Response(400, "Submission already exists for this team")

\* the result of a find_one that matches nothing (None)
NoDoc == [id |-> 0]

\* db.<coll>.find_one(filter), given the documents the filter matches: the
\* first of them in insertion order (ids are handed out in insertion
\* order), None when there is none
find_one(hits) ==
    IF hits = {} THEN NoDoc
    ELSE CHOOSE d \in hits : \A e \in hits : d.id <= e.id

\* cursor.to_list(length): the first `length` documents of the cursor, in
\* insertion order
to_list(docs, length) ==
    IF Cardinality(docs) <= length THEN docs
    ELSE {d \in docs : Cardinality({e \in docs : e.id < d.id}) < length}

\* the length every listing route passes to to_list
to_list_length == 1000

\* default_factory of the id fields: an id no stored document has
fresh_id(coll) == Cardinality(coll) + 1

\* ------------------------------------------------------------ tokens
\* the lifetime of a token, in hours; `now` counts hours as well
JWT_EXPIRATION_HOURS == 24

\* a bearer token: the payload's id, role and `exp`, and whether the
\* signature verifies under JWT_SECRET.  create_jwt_token signs the payload
\* with exp = utcnow() + JWT_EXPIRATION_HOURS.
create_jwt_token(user) ==
    [id |-> user.id, role |-> user.role, sig |-> TRUE,
     exp |-> now + JWT_EXPIRATION_HOURS]

\* mutant: the payload is returned without looking at `exp`
decode_jwt_token_any_age(token) ==
    IF ~token.sig
    THEN [ok |-> FALSE, code |-> TokenInvalid.code,
          detail |-> TokenInvalid.detail, id |-> 0, role |-> "none"]
    ELSE [ok |-> TRUE, code |-> 200, detail |-> "ok",
          id |-> token.id, role |-> token.role]

\* decode_jwt_token: jwt.decode verifies the signature first, then `exp`
\* (expired once exp <= now); the payload comes back as it was signed
decode_jwt_token(token) ==
    IF ~token.sig
    THEN [ok |-> FALSE, code |-> TokenInvalid.code,
          detail |-> TokenInvalid.detail, id |-> 0, role |-> "none"]
    ELSE IF token.exp <= now
    THEN [ok |-> FALSE, code |-> TokenExpired.code,
          detail |-> TokenExpired.detail, id |-> 0, role |-> "none"]
    ELSE [ok |-> TRUE, code |-> 200, detail |-> "ok",
          id |-> token.id, role |-> token.role]

\* get_current_user: every HTTPException raised inside the try block is
\* itself caught by `except Exception` and replaced by "Invalid authentication"
get_current_user(token) ==
    LET payload == decode_jwt_token(token)
        user_data == find_one({u \in users : u.id = payload.id})
    IN  IF ~payload.ok \/ payload.id = 0 \/ user_data.id = 0
        THEN [ok |-> FALSE, code |-> InvalidAuthentication.code,
              detail |-> InvalidAuthentication.detail, user |-> NoDoc]
        ELSE [ok |-> TRUE, code |-> 200, detail |-> "ok", user |-> user_data]

\* mutant: role_checker returns the user without comparing its role
require_role_unchecked(current_user, required_roles) ==
    current_user.role \in UserRole

\* role_checker inside require_role
require_role(current_user, required_roles) ==
    current_user.role \in required_roles

\* the routes that depend on require_role
GuardedOps == {"create_event", "get_my_events", "update_event_status",
               "create_team", "get_my_teams", "create_submission"}

\* the Depends(require_role([...])) of each guarded route
RequiredRoles(op) ==
    CASE op \in {"create_event", "get_my_events", "update_event_status"}
           -> {"organizer"}
      [] op \in {"create_team", "get_my_teams", "create_submission"}
           -> {"participant"}

\* ------------------------------------------------------------ requests
\* the JSON body of POST /events: a declared field of EventCreate, and the
\* keys "status" and "organizer_id", which EventCreate does not declare
\* ("none" and 0 stand for a key that is not sent)
PlainBody == [title |-> "hack", max_team_size |-> 4,
              status |-> "none", organizer_id |-> 0]
ForgedBody == [title |-> "hack", max_team_size |-> 4,
               status |-> "active", organizer_id |-> 2]
\* max_team_size is declared int, with default 4 and no lower limit
NoTeamBody == [title |-> "hack", max_team_size |-> 0,
               status |-> "none", organizer_id |-> 0]

\* EventCreate(**body).dict(): the declared fields; pydantic ignores the rest
EventCreate(body) ==
    [title |-> body.title, max_team_size |-> body.max_team_size]

NoReq == [op |-> "none", token |-> create_jwt_token([id |-> 0, role |-> "none"]),
          event_id |-> 0, team_id |-> 0, status |-> "none", body |-> PlainBody]

NoLoc == [user |-> 0, event_id |-> 0]

Request(op, token, event_id, team_id, status) ==
    [op |-> op, token |-> token, event_id |-> event_id, team_id |-> team_id,
     status |-> status, body |-> PlainBody]

\* A workload bounds what the clients send: the identities that hold a token
\* (one issued at login for each of them), the documents per collection,
\* the bodies of POST /events, and whether clients also present tokens that
\* do not authenticate, the routes they call and the statuses they ask for.
IssuedTokens(w) == {create_jwt_token(u) : u \in {v \in users : v.id \in w.clients}}

\* an identity no stored user has
UnknownId == 9

\* tokens that do not authenticate: one signed with another secret, one
\* whose `exp` has passed, one whose id names no stored user
BadTokens(w) ==
    {[t EXCEPT !.sig = FALSE] : t \in IssuedTokens(w)}
    \cup {[t EXCEPT !.exp = now - 1] : t \in IssuedTokens(w)}
    \cup {create_jwt_token([id |-> UnknownId, role |-> "organizer"])}

Tokens(w) == IssuedTokens(w) \cup (IF w.bad_tokens THEN BadTokens(w) ELSE {})

AllRequests(w) ==
    {Request(op, t, 0, 0, "none") :
        op \in {"get_my_events", "get_my_teams"}, t \in Tokens(w)}
    \cup {[Request("create_event", t, 0, 0, "none") EXCEPT !.body = b] :
            t \in Tokens(w), b \in w.bodies}
    \cup {Request("update_event_status", t, e, 0, s) :
            t \in Tokens(w), e \in 1..w.events, s \in w.statuses}
    \cup {Request("create_team", t, e, 0, "none") :
            t \in Tokens(w), e \in 1..w.events}
    \cup {Request("create_submission", t, 0, tm, "none") :
            t \in Tokens(w), tm \in 1..w.teams}

Requests(w) == {r \in AllRequests(w) : r.op \in w.ops}

\* the first database call of each handler body
FirstStep(op) ==
    CASE op = "create_event" -> "create_event_insert"
      [] op = "get_my_events" -> "get_my_events_find"
      [] op = "update_event_status" -> "update_event_status_find"
      [] op = "create_team" -> "create_team_find_event"
      [] op = "get_my_teams" -> "get_my_teams_find"
      [] op = "create_submission" -> "create_submission_find_team"

InFlight(label) == Cardinality({q \in Procs : pc[q] = label})

\* the collections stay within the bounds: a request that will insert is
\* taken only while there is room for it
Room(op, w) ==
    CASE op = "create_event" ->
           Cardinality(events) + InFlight("create_event_insert") < w.events
      [] op = "create_team" ->
           Cardinality(teams) + InFlight("create_team_find_event")
             + InFlight("create_team_find_team")
             + InFlight("create_team_insert") < w.teams
      [] op = "create_submission" ->
           Cardinality(submissions) + InFlight("create_submission_find_team")
             + InFlight("create_submission_find_event")
             + InFlight("create_submission_find_existing")
             + InFlight("create_submission_insert") < w.submissions
      [] OTHER -> TRUE

Finish(p, r) ==
    /\ pc' = [pc EXCEPT ![p] = "done"]
    /\ resp' = [resp EXCEPT ![p] = r]

Goto(p, label) ==
    /\ pc' = [pc EXCEPT ![p] = label]
    /\ UNCHANGED resp

\* ------------------------------------------------------------ the guard
\* mutant: the role named in the token is checked before the token is
\* authenticated
authorize_role_first(p, w) ==
    /\ pc[p] \in {"idle", "done"}
    /\ \E r \in Requests(w) :
         LET auth == get_current_user(r.token)
         IN  /\ req' = [req EXCEPT ![p] = r]
             /\ IF r.token.role \notin RequiredRoles(r.op)
                THEN /\ Finish(p, Forbidden)
                     /\ loc' = [loc EXCEPT ![p] = NoLoc]
                ELSE IF ~auth.ok
                THEN /\ Finish(p, Response(auth.code, auth.detail))
                     /\ loc' = [loc EXCEPT ![p] = NoLoc]
                ELSE /\ Room(r.op, w)
                     /\ pc' = [pc EXCEPT ![p] = FirstStep(r.op)]
                     /\ resp' = [resp EXCEPT ![p] = NoResp]
                     /\ loc' = [loc EXCEPT ![p] =
                                  [NoLoc EXCEPT !.user = auth.user.id]]
    /\ UNCHANGED <<store, now>>

\* A request arrives and its dependencies are resolved: get_current_user
\* (db.users.find_one by the token's id), then role_checker.
authorize(p, w) ==
    /\ pc[p] \in {"idle", "done"}
    /\ \E r \in Requests(w) :
         LET auth == get_current_user(r.token)
         IN  /\ req' = [req EXCEPT ![p] = r]
             /\ IF ~auth.ok
                THEN /\ Finish(p, Response(auth.code, auth.detail))
                     /\ loc' = [loc EXCEPT ![p] = NoLoc]
                ELSE IF ~require_role(auth.user, RequiredRoles(r.op))
                THEN /\ Finish(p, Forbidden)
                     /\ loc' = [loc EXCEPT ![p] = NoLoc]
                ELSE /\ Room(r.op, w)
                     /\ pc' = [pc EXCEPT ![p] = FirstStep(r.op)]
                     /\ resp' = [resp EXCEPT ![p] = NoResp]
                     /\ loc' = [loc EXCEPT ![p] =
                                  [NoLoc EXCEPT !.user = auth.user.id]]
    /\ UNCHANGED <<store, now>>

\* ------------------------------------------------------------ events
\* mutant: the event is built from the raw body, undeclared keys included
create_event_from_body(p) ==
    /\ pc[p] = "create_event_insert"
    /\ events' = events \cup
         {[id |-> fresh_id(events),
           title |-> req[p].body.title,
           max_team_size |-> req[p].body.max_team_size,
           organizer_id |-> IF req[p].body.organizer_id # 0
                            THEN req[p].body.organizer_id ELSE loc[p].user,
           status |-> IF req[p].body.status # "none"
                      THEN req[p].body.status ELSE "draft"]}
    /\ Finish(p, Ok)
    /\ UNCHANGED <<users, teams, submissions, req, loc, now>>

\* create_event: Event(**event_data.dict(), organizer_id=current_user.id);
\* the id comes from default_factory and the status from its default, DRAFT
create_event(p) ==
    /\ pc[p] = "create_event_insert"
    /\ events' = events \cup {[id |-> fresh_id(events),
                               title |-> EventCreate(req[p].body).title,
                               max_team_size |->
                                   EventCreate(req[p].body).max_team_size,
                               organizer_id |-> loc[p].user,
                               status |-> "draft"]}
    /\ Finish(p, Ok)
    /\ UNCHANGED <<users, teams, submissions, req, loc, now>>

\* get_events: db.events.find({"status": {"$ne": DRAFT}}).  The route has
\* no dependency: the request is served whatever credentials it carries.
get_events(p) ==
    /\ pc[p] \in {"idle", "done"}
    /\ req' = [req EXCEPT ![p] = [NoReq EXCEPT !.op = "get_events"]]
    /\ loc' = [loc EXCEPT ![p] = NoLoc]
    /\ Finish(p, Body(to_list({e \in events : e.status # "draft"},
                            to_list_length)))
    /\ UNCHANGED <<store, now>>

\* get_my_events: db.events.find({"organizer_id": current_user.id})
get_my_events(p) ==
    /\ pc[p] = "get_my_events_find"
    /\ Finish(p, Ok)
    /\ UNCHANGED <<store, req, loc, now>>

\* mutant: the lookup filters by id alone, not by organizer_id
update_event_status_find_by_id(p) ==
    /\ pc[p] = "update_event_status_find"
    /\ LET event == find_one({e \in events : e.id = req[p].event_id})
       IN  IF event.id = 0
           THEN Finish(p, NotFoundOrUnauthorized)
           ELSE Goto(p, "update_event_status_update")
    /\ UNCHANGED <<store, req, loc, now>>

\* update_event_status, first await: find_one({"id", "organizer_id"})
update_event_status_find(p) ==
    /\ pc[p] = "update_event_status_find"
    /\ LET event == find_one({e \in events : /\ e.id = req[p].event_id
                                              /\ e.organizer_id = loc[p].user})
       IN  IF event.id = 0
           THEN Finish(p, NotFoundOrUnauthorized)
           ELSE Goto(p, "update_event_status_update")
    /\ UNCHANGED <<store, req, loc, now>>

\* mutant: the update has no filter, it sets the status of every event
update_event_status_update_every_event(p) ==
    /\ pc[p] = "update_event_status_update"
    /\ events' = {[e EXCEPT !.status = req[p].status] : e \in events}
    /\ Finish(p, Ok)
    /\ UNCHANGED <<users, teams, submissions, req, loc, now>>

\* mutant: the update is applied only when it moves the status forward
update_event_status_update_forward(p) ==
    /\ pc[p] = "update_event_status_update"
    /\ events' = {IF e.id = req[p].event_id /\ Rank(req[p].status) > Rank(e.status)
                  THEN [e EXCEPT !.status = req[p].status] ELSE e : e \in events}
    /\ Finish(p, Ok)
    /\ UNCHANGED <<users, teams, submissions, req, loc, now>>

\* update_event_status, second await: update_one({"id"}, {"$set": {"status"}})
update_event_status_update(p) ==
    /\ pc[p] = "update_event_status_update"
    /\ events' = {IF e.id = req[p].event_id
                  THEN [e EXCEPT !.status = req[p].status] ELSE e : e \in events}
    /\ Finish(p, Ok)
    /\ UNCHANGED <<users, teams, submissions, req, loc, now>>

\* ------------------------------------------------------------ teams
\* mutant: the status check accepts ACTIVE alone
create_team_find_event_active_only(p) ==
    /\ pc[p] = "create_team_find_event"
    /\ LET event == find_one({e \in events : e.id = req[p].event_id})
       IN  IF event.id = 0 \/ event.status \notin {"active"}
           THEN Finish(p, EventNotAvailable)
           ELSE Goto(p, "create_team_find_team")
    /\ UNCHANGED <<store, req, loc, now>>

\* create_team, first await: the event lookup and the status check
create_team_find_event(p) ==
    /\ pc[p] = "create_team_find_event"
    /\ LET event == find_one({e \in events : e.id = req[p].event_id})
       IN  IF event.id = 0 \/ event.status \notin {"active", "submissions_open"}
           THEN Finish(p, EventNotAvailable)
           ELSE Goto(p, "create_team_find_team")
    /\ UNCHANGED <<store, req, loc, now>>

\* mutant: the lookup of an existing team ignores the event
create_team_find_team_any_event(p) ==
    /\ pc[p] = "create_team_find_team"
    /\ LET existing_team ==
             find_one({t \in teams : \/ t.leader_id = loc[p].user
                                     \/ loc[p].user \in t.members})
       IN  IF existing_team.id # 0
           THEN Finish(p, AlreadyTeamed)
           ELSE Goto(p, "create_team_insert")
    /\ UNCHANGED <<store, req, loc, now>>

\* create_team, second await: the existing-team lookup
create_team_find_team(p) ==
    /\ pc[p] = "create_team_find_team"
    /\ LET existing_team ==
             find_one({t \in teams : /\ t.event_id = req[p].event_id
                                     /\ \/ t.leader_id = loc[p].user
                                        \/ loc[p].user \in t.members})
       IN  IF existing_team.id # 0
           THEN Finish(p, AlreadyTeamed)
           ELSE Goto(p, "create_team_insert")
    /\ UNCHANGED <<store, req, loc, now>>

\* create_team, third await: insert_one
create_team_insert(p) ==
    /\ pc[p] = "create_team_insert"
    /\ teams' = teams \cup {[id |-> fresh_id(teams),
                             event_id |-> req[p].event_id,
                             leader_id |-> loc[p].user,
                             members |-> {loc[p].user}]}
    /\ Finish(p, Ok)
    /\ UNCHANGED <<users, events, submissions, req, loc, now>>

\* get_my_teams: db.teams.find({"$or": [leader_id, members]})
get_my_teams(p) ==
    /\ pc[p] = "get_my_teams_find"
    /\ Finish(p, Ok)
    /\ UNCHANGED <<store, req, loc, now>>

\* ------------------------------------------------------------ submissions
\* mutant: the team is looked up and its members are not
create_submission_find_team_any_caller(p) ==
    /\ pc[p] = "create_submission_find_team"
    /\ LET team == find_one({t \in teams : t.id = req[p].team_id})
       IN  IF team.id = 0
           THEN /\ Finish(p, NotTeamMember)
                /\ UNCHANGED loc
           ELSE /\ Goto(p, "create_submission_find_event")
                /\ loc' = [loc EXCEPT ![p].event_id = team.event_id]
    /\ UNCHANGED <<store, req, now>>

\* create_submission, first await: the team lookup and the membership check
create_submission_find_team(p) ==
    /\ pc[p] = "create_submission_find_team"
    /\ LET team == find_one({t \in teams : t.id = req[p].team_id})
       IN  IF team.id = 0 \/ loc[p].user \notin team.members
           THEN /\ Finish(p, NotTeamMember)
                /\ UNCHANGED loc
           ELSE /\ Goto(p, "create_submission_find_event")
                /\ loc' = [loc EXCEPT ![p].event_id = team.event_id]
    /\ UNCHANGED <<store, req, now>>

\* mutant: the submission is inserted before the status is checked
create_submission_find_event_insert_first(p) ==
    /\ pc[p] = "create_submission_find_event"
    /\ submissions' = submissions \cup {[id |-> fresh_id(submissions),
                                         team_id |-> req[p].team_id,
                                         event_id |-> loc[p].event_id]}
    /\ LET event == find_one({e \in events : e.id = loc[p].event_id})
       IN  IF event.id = 0 \/ event.status \notin {"submissions_open"}
           THEN Finish(p, SubmissionsNotOpen)
           ELSE Goto(p, "create_submission_find_existing")
    /\ UNCHANGED <<users, events, teams, req, loc, now>>

\* create_submission, second await: the event lookup and the status check
create_submission_find_event(p) ==
    /\ pc[p] = "create_submission_find_event"
    /\ LET event == find_one({e \in events : e.id = loc[p].event_id})
       IN  IF event.id = 0 \/ event.status \notin {"submissions_open"}
           THEN Finish(p, SubmissionsNotOpen)
           ELSE Goto(p, "create_submission_find_existing")
    /\ UNCHANGED <<store, req, loc, now>>

\* mutant: the handler inserts whatever the lookup finds
create_submission_find_existing_ignored(p) ==
    /\ pc[p] = "create_submission_find_existing"
    /\ Goto(p, "create_submission_insert")
    /\ UNCHANGED <<store, req, loc, now>>

\* create_submission, third await: the existing-submission lookup
create_submission_find_existing(p) ==
    /\ pc[p] = "create_submission_find_existing"
    /\ LET existing ==
             find_one({s \in submissions : /\ s.team_id = req[p].team_id
                                           /\ s.event_id = loc[p].event_id})
       IN  IF existing.id # 0
           THEN Finish(p, SubmissionAlreadyExists)
           ELSE Goto(p, "create_submission_insert")
    /\ UNCHANGED <<store, req, loc, now>>

\* create_submission, fourth await: insert_one
create_submission_insert(p) ==
    /\ pc[p] = "create_submission_insert"
    /\ submissions' = submissions \cup {[id |-> fresh_id(submissions),
                                         team_id |-> req[p].team_id,
                                         event_id |-> loc[p].event_id]}
    /\ Finish(p, Ok)
    /\ UNCHANGED <<users, events, teams, req, loc, now>>

\* ------------------------------------------------------------ identities
\* hash_password: bcrypt.hashpw with bcrypt.gensalt(), a salt no other
\* credential has
hash_password(password, salt) == [salt |-> salt, password |-> password]

\* verify_password: bcrypt.checkpw hashes the password with the salt of the
\* stored hash and compares
verify_password(password, hashed) ==
    hash_password(password, hashed.salt) = hashed

Emails == {"o@x.com", "p@x.com"}
Passwords == {"pw1", "pw2"}

RegisterRequests ==
    {[op |-> "register", email |-> e, password |-> pw, role |-> r] :
        e \in Emails, pw \in Passwords, r \in UserRole}

\* what the clients of the registration route send, and how many identities
\* the store may hold
AuthLoad == [registrations |-> RegisterRequests, users |-> MaxUsers]

\* mutant: the lookup matches the email and the role
register_find_same_role(p, w) ==
    /\ pc[p] \in {"idle", "done"}
    /\ \E user_data \in w.registrations :
         LET existing_user == find_one({u \in users : /\ u.email = user_data.email
                                                      /\ u.role = user_data.role})
         IN  /\ req' = [req EXCEPT ![p] = user_data]
             /\ IF existing_user.id # 0
                THEN Finish(p, DuplicateIdentity)
                ELSE /\ Cardinality(users) + InFlight("register_insert") < w.users
                     /\ pc' = [pc EXCEPT ![p] = "register_insert"]
                     /\ resp' = [resp EXCEPT ![p] = NoResp]
    /\ UNCHANGED <<store, loc, now>>

\* register, first await: the lookup by email
register_find(p, w) ==
    /\ pc[p] \in {"idle", "done"}
    /\ \E user_data \in w.registrations :
         LET existing_user == find_one({u \in users : u.email = user_data.email})
         IN  /\ req' = [req EXCEPT ![p] = user_data]
             /\ IF existing_user.id # 0
                THEN Finish(p, DuplicateIdentity)
                ELSE /\ Cardinality(users) + InFlight("register_insert") < w.users
                     /\ pc' = [pc EXCEPT ![p] = "register_insert"]
                     /\ resp' = [resp EXCEPT ![p] = NoResp]
    /\ UNCHANGED <<store, loc, now>>

\* register, second await: insert_one of User(email, name, role) with the
\* hashed password
register_insert(p) ==
    /\ pc[p] = "register_insert"
    /\ users' = users \cup
                  {[id |-> fresh_id(users),
                    email |-> req[p].email,
                    role |-> req[p].role,
                    password |-> hash_password(req[p].password, fresh_id(users)),
                    is_active |-> TRUE]}
    /\ Finish(p, Ok)
    /\ UNCHANGED <<events, teams, submissions, req, loc, now>>

LoginRequests ==
    {[op |-> "login", email |-> e, password |-> pw] :
        e \in Emails, pw \in Passwords}

\* login: one await, the lookup by email; then verify_password and
\* create_jwt_token
login(p) ==
    /\ pc[p] \in {"idle", "done"}
    /\ \E login_data \in LoginRequests :
         LET user_data == find_one({u \in users : u.email = login_data.email})
         IN  /\ req' = [req EXCEPT ![p] = login_data]
             /\ IF \/ user_data.id = 0
                   \/ ~verify_password(login_data.password, user_data.password)
                THEN Finish(p, InvalidCredentials)
                ELSE Finish(p, Body([access_token |-> create_jwt_token(user_data),
                                     user |-> user_data.id]))
    /\ UNCHANGED <<store, loc, now>>

\* ------------------------------------------------------------ token service
\* datetime.utcnow() moves on by an hour
tick ==
    /\ now < MaxClock
    /\ now' = now + 1
    /\ UNCHANGED <<store, pc, req, loc, resp>>

\* create_jwt_token(user) for a stored identity, as login calls it; the
\* client keeps the token, the hour it was issued at is remembered
issue_token(p) ==
    /\ pc[p] \in {"idle", "done"}
    /\ \E user \in users :
         /\ req' = [req EXCEPT ![p] =
                      [op |-> "validate", token |-> create_jwt_token(user),
                       event_id |-> 0, team_id |-> 0, status |-> "none",
                       body |-> PlainBody, issued_at |-> now]]
         /\ loc' = [loc EXCEPT ![p] = [NoLoc EXCEPT !.user = user.id]]
    /\ pc' = [pc EXCEPT ![p] = "validate_token"]
    /\ resp' = [resp EXCEPT ![p] = NoResp]
    /\ UNCHANGED <<store, now>>

\* decode_jwt_token applied to the token the client keeps: the payload, or
\* the HTTPException it raises
validate_token(p) ==
    /\ pc[p] = "validate_token"
    /\ LET payload == decode_jwt_token(req[p].token)
       IN  Finish(p, IF payload.ok
                     THEN Body([id |-> payload.id, role |-> payload.role])
                     ELSE Response(payload.code, payload.detail))
    /\ UNCHANGED <<store, req, loc, now>>

\* ------------------------------------------------------------ specification
\* the identities registered before the competition requests arrive
RegisteredUsers ==
    {[id |-> 1, email |-> "o1@x.com", role |-> "organizer",
      password |-> hash_password("pw1", 1), is_active |-> TRUE],
     [id |-> 2, email |-> "o2@x.com", role |-> "organizer",
      password |-> hash_password("pw2", 2), is_active |-> TRUE],
     [id |-> 3, email |-> "p1@x.com", role |-> "participant",
      password |-> hash_password("pw3", 3), is_active |-> TRUE]}

InitRequests ==
    /\ now = 0
    /\ pc = [p \in Procs |-> "idle"]
    /\ req = [p \in Procs |-> NoReq]
    /\ loc = [p \in Procs |-> NoLoc]
    /\ resp = [p \in Procs |-> NoResp]

Init ==
    /\ users = RegisteredUsers
    /\ events = {}
    /\ teams = {}
    /\ submissions = {}
    /\ InitRequests

\* the concurrent workload: the owner of the event and one participant,
\* NumProcs requests in flight
RaceLoad ==
    [clients |-> {1, 3}, events |-> MaxEvents, teams |-> MaxTeams,
     submissions |-> MaxSubmissions, bodies |-> {PlainBody},
     bad_tokens |-> FALSE, ops |-> GuardedOps, statuses |-> EventStatus]

Next ==
    \E p \in Procs :
        \/ authorize(p, RaceLoad)
        \/ create_event(p)
        \/ get_my_events(p)
        \/ update_event_status_find(p)
        \/ update_event_status_update(p)
        \/ create_team_find_event(p)
        \/ create_team_find_team(p)
        \/ create_team_insert(p)
        \/ get_my_teams(p)
        \/ create_submission_find_team(p)
        \/ create_submission_find_event(p)
        \/ create_submission_find_existing(p)
        \/ create_submission_insert(p)

Spec == Init /\ [][Next]_vars

\* the sequential workload: every registered identity, one request at a
\* time (a single worker)
SeqLoad ==
    [clients |-> {1, 2, 3}, events |-> SeqMaxEvents, teams |-> SeqMaxTeams,
     submissions |-> SeqMaxSubmissions, bodies |-> {PlainBody, ForgedBody},
     bad_tokens |-> FALSE, ops |-> GuardedOps, statuses |-> EventStatus]

NextSeq ==
    \/ authorize(1, SeqLoad)
    \/ create_event(1)
    \/ get_my_events(1)
    \/ update_event_status_find(1)
    \/ update_event_status_update(1)
    \/ create_team_find_event(1)
    \/ create_team_find_team(1)
    \/ create_team_insert(1)
    \/ get_my_teams(1)
    \/ create_submission_find_team(1)
    \/ create_submission_find_event(1)
    \/ create_submission_find_existing(1)
    \/ create_submission_insert(1)

SpecSeq == Init /\ [][NextSeq]_vars

\* team formation over several events: one organizer, one participant, one
\* request at a time
TeamsLoad ==
    [clients |-> {1, 3}, events |-> TeamMaxEvents, teams |-> TeamMaxTeams,
     submissions |-> 0, bodies |-> {PlainBody}, bad_tokens |-> FALSE,
     ops |-> {"create_event", "update_event_status", "create_team"},
     statuses |-> {"draft", "active", "submissions_open"}]

NextTeams ==
    \/ authorize(1, TeamsLoad)
    \/ create_event(1)
    \/ update_event_status_find(1)
    \/ update_event_status_update(1)
    \/ create_team_find_event(1)
    \/ create_team_find_team(1)
    \/ create_team_insert(1)

SpecTeams == Init /\ [][NextTeams]_vars

\* the guard under tokens that do not authenticate: the owner of the event
\* and one participant, one request at a time
GuardLoad ==
    [clients |-> {1, 3}, events |-> SeqMaxEvents, teams |-> SeqMaxTeams,
     submissions |-> SeqMaxSubmissions, bodies |-> {PlainBody},
     bad_tokens |-> TRUE, ops |-> GuardedOps,
     statuses |-> {"active", "submissions_open"}]

NextGuard ==
    \/ authorize(1, GuardLoad)
    \/ create_event(1)
    \/ get_my_events(1)
    \/ update_event_status_find(1)
    \/ update_event_status_update(1)
    \/ create_team_find_event(1)
    \/ create_team_find_team(1)
    \/ create_team_insert(1)
    \/ get_my_teams(1)
    \/ create_submission_find_team(1)
    \/ create_submission_find_event(1)
    \/ create_submission_find_existing(1)
    \/ create_submission_insert(1)

SpecGuard == Init /\ [][NextGuard]_vars

\* the token service under a clock: tokens are issued for the registered
\* identities and validated any number of hours later
NextToken ==
    \/ tick
    \/ issue_token(1)
    \/ validate_token(1)

SpecToken == Init /\ [][NextToken]_vars

\* status changes among several events that have teams and submissions:
\* one organizer, one participant, one request at a time
FrameLoad ==
    [clients |-> {1, 3}, events |-> TeamMaxEvents, teams |-> SeqMaxTeams,
     submissions |-> MemberMaxSubmissions, bodies |-> {PlainBody},
     bad_tokens |-> FALSE,
     ops |-> {"create_event", "update_event_status", "create_team",
              "create_submission"},
     statuses |-> {"draft", "submissions_open"}]

NextFrame ==
    \/ authorize(1, FrameLoad)
    \/ create_event(1)
    \/ update_event_status_find(1)
    \/ update_event_status_update(1)
    \/ create_team_find_event(1)
    \/ create_team_find_team(1)
    \/ create_team_insert(1)
    \/ create_submission_find_team(1)
    \/ create_submission_find_event(1)
    \/ create_submission_find_existing(1)
    \/ create_submission_insert(1)

SpecFrame == Init /\ [][NextFrame]_vars

\* team formation in events of any declared size: one organizer, one
\* participant, one request at a time
SizesLoad ==
    [clients |-> {1, 3}, events |-> SeqMaxEvents, teams |-> SeqMaxTeams,
     submissions |-> 0, bodies |-> {PlainBody, NoTeamBody},
     bad_tokens |-> FALSE,
     ops |-> {"create_event", "update_event_status", "create_team"},
     statuses |-> EventStatus]

NextSizes ==
    \/ authorize(1, SizesLoad)
    \/ create_event(1)
    \/ update_event_status_find(1)
    \/ update_event_status_update(1)
    \/ create_team_find_event(1)
    \/ create_team_find_team(1)
    \/ create_team_insert(1)

SpecSizes == Init /\ [][NextSizes]_vars

\* submissions with two participants: a second participant has registered,
\* one request at a time
SecondParticipant ==
    [id |-> 4, email |-> "p2@x.com", role |-> "participant",
     password |-> hash_password("pw4", 4), is_active |-> TRUE]

InitMembers ==
    /\ users = RegisteredUsers \cup {SecondParticipant}
    /\ events = {}
    /\ teams = {}
    /\ submissions = {}
    /\ InitRequests

MembersLoad ==
    [clients |-> {1, 3, 4}, events |-> SeqMaxEvents, teams |-> SeqMaxTeams,
     submissions |-> MemberMaxSubmissions, bodies |-> {PlainBody},
     bad_tokens |-> FALSE,
     ops |-> {"create_event", "update_event_status", "create_team",
              "create_submission"},
     statuses |-> {"active", "submissions_open", "judging"}]

NextMembers ==
    \/ authorize(1, MembersLoad)
    \/ create_event(1)
    \/ update_event_status_find(1)
    \/ update_event_status_update(1)
    \/ create_team_find_event(1)
    \/ create_team_find_team(1)
    \/ create_team_insert(1)
    \/ create_submission_find_team(1)
    \/ create_submission_find_event(1)
    \/ create_submission_find_existing(1)
    \/ create_submission_insert(1)

SpecMembers == InitMembers /\ [][NextMembers]_vars

\* the guard over stores in which identities have been deactivated: User
\* declares is_active and no route writes it, so the flag is cleared in the
\* database itself
DeactivatedStores ==
    {{[u EXCEPT !.is_active = active[u.id]] : u \in RegisteredUsers} :
        active \in [{u.id : u \in RegisteredUsers} -> BOOLEAN]}

InitInactive ==
    /\ users \in DeactivatedStores
    /\ events = {}
    /\ teams = {}
    /\ submissions = {}
    /\ InitRequests

SpecInactive == InitInactive /\ [][NextGuard]_vars

\* registration from the empty store, NumProcs requests in flight
InitAuth ==
    /\ users = {}
    /\ events = {}
    /\ teams = {}
    /\ submissions = {}
    /\ InitRequests

NextAuth ==
    \E p \in Procs :
        \/ register_find(p, AuthLoad)
        \/ register_insert(p)

SpecAuth == InitAuth /\ [][NextAuth]_vars

\* the public listing over large stores: the organizer has created events
\* and moved them out of Draft, all but possibly the first
LargeStores ==
    {{[id |-> i, title |-> "hack", max_team_size |-> 4, organizer_id |-> 1,
       status |-> IF i = 1 THEN first ELSE "active"] : i \in 1..n} :
        n \in (to_list_length + 1 - StoreSizes)..(to_list_length + 1),
        first \in {"draft", "active"}}

InitListing ==
    /\ users = RegisteredUsers
    /\ events \in LargeStores
    /\ teams = {}
    /\ submissions = {}
    /\ InitRequests

NextListing == get_events(1)

SpecListing == InitListing /\ [][NextListing]_vars

\* registration and login from the empty store, NumProcs requests in flight
NextLogin ==
    \E p \in Procs :
        \/ register_find(p, AuthLoad)
        \/ register_insert(p)
        \/ login(p)

SpecLogin == InitAuth /\ [][NextLogin]_vars

\* registration and login from the empty store, one request at a time
NextCred ==
    \/ register_find(1, AuthLoad)
    \/ register_insert(1)
    \/ login(1)

SpecCred == InitAuth /\ [][NextCred]_vars

\* every route that writes, one request at a time: the owner of the event,
\* one participant, and a newcomer who registers
WritesLoad ==
    [clients |-> {1, 3}, events |-> SeqMaxEvents, teams |-> SeqMaxTeams,
     submissions |-> SeqMaxSubmissions, bodies |-> {PlainBody},
     bad_tokens |-> FALSE,
     ops |-> {"create_event", "update_event_status", "create_team",
              "create_submission"},
     statuses |-> {"active", "submissions_open", "completed"},
     registrations |->
        {[op |-> "register", email |-> "o@x.com", password |-> "pw1",
          role |-> "participant"],
         [op |-> "register", email |-> "o@x.com", password |-> "pw2",
          role |-> "judge"]},
     users |-> WriteMaxUsers]

NextWrites ==
    \/ register_find(1, WritesLoad)
    \/ register_insert(1)
    \/ authorize(1, WritesLoad)
    \/ create_event(1)
    \/ update_event_status_find(1)
    \/ update_event_status_update(1)
    \/ create_team_find_event(1)
    \/ create_team_find_team(1)
    \/ create_team_insert(1)
    \/ create_submission_find_team(1)
    \/ create_submission_find_event(1)
    \/ create_submission_find_existing(1)
    \/ create_submission_insert(1)

SpecWrites == Init /\ [][NextWrites]_vars

\* ------------------------------------------------------------ properties
\* the stored event a request names, and the identity its token names
EventOf(event_id) == find_one({e \in events : e.id = event_id})
Caller(p) == find_one({u \in users : u.id = req[p].token.id})
Accepting == {"active", "submissions_open"}

\* C1: no identity is leader or member of more than one team for the same
\* event, whatever the interleaving of concurrent createTeam requests
OneTeamPerEventPerIdentity ==
    \A t1 \in teams : \A t2 \in teams :
        (t1.id # t2.id /\ t1.event_id = t2.event_id)
            => ({t1.leader_id} \cup t1.members)
                 \cap ({t2.leader_id} \cup t2.members) = {}

\* C2: there is at most one submission per (team, event) pair, whatever the
\* interleaving of concurrent createSubmission requests
OneSubmissionPerTeam ==
    \A s1 \in submissions : \A s2 \in submissions :
        (s1.team_id = s2.team_id /\ s1.event_id = s2.event_id) => s1.id = s2.id

\* C3: no two stored identities have the same email, whatever the
\* interleaving of concurrent register requests
UniqueEmail ==
    \A u1 \in users : \A u2 \in users : u1.email = u2.email => u1.id = u2.id

\* C4: a team is inserted only while its event is Active or SubmissionsOpen
\* and a submission only while its event is SubmissionsOpen, also when an
\* updateEventStatus runs between the handler's check and its insert
InsertOnlyWhileStatusPermits ==
    [][/\ \A t \in teams' \ teams : EventOf(t.event_id).status \in Accepting
       /\ \A s \in submissions' \ submissions :
             EventOf(s.event_id).status = "submissions_open"]_vars

\* a finished createTeam request of a participant for a stored event
CreateTeamDone(p) ==
    /\ pc[p] = "done"
    /\ req[p].op = "create_team"
    /\ Caller(p).id # 0
    /\ Caller(p).role = "participant"
    /\ EventOf(req[p].event_id).id # 0

\* the teams of an event that an identity leads or is a member of
TeamsOf(user_id, event_id) ==
    {t \in teams : /\ t.event_id = event_id
                   /\ (t.leader_id = user_id \/ user_id \in t.members)}

\* C5 as stated: for a participant and a stored event, createTeam succeeds
\* if and only if the status is Active or SubmissionsOpen, and fails with
\* EventNotAvailable otherwise
CreateTeamSucceedsIffAccepting ==
    \A p \in Procs :
        CreateTeamDone(p) =>
            LET st == EventOf(req[p].event_id).status
            IN  /\ (resp[p] = Ok <=> st \in Accepting)
                /\ (st \notin Accepting => resp[p] = EventNotAvailable)

\* C5 as amended: createTeam fails with EventNotAvailable exactly when the
\* status is none of Active, SubmissionsOpen; in those two statuses it
\* succeeds exactly when the caller was on no team of the event (the new
\* team is then its only one), and fails with AlreadyTeamed otherwise
CreateTeamGating ==
    \A p \in Procs :
        CreateTeamDone(p) =>
            LET st == EventOf(req[p].event_id).status
                mine == TeamsOf(Caller(p).id, req[p].event_id)
            IN  /\ (resp[p] = EventNotAvailable <=> st \notin Accepting)
                /\ (st \in Accepting => resp[p] \in {Ok, AlreadyTeamed})
                /\ (resp[p] = Ok => Cardinality(mine) = 1)
                /\ (resp[p] = AlreadyTeamed => mine # {})

\* C5 witness: a participant already on a team of an open event was refused
CreateTeamRefusedWhileOpen ==
    \E p \in Procs :
        /\ CreateTeamDone(p)
        /\ EventOf(req[p].event_id).status = "submissions_open"
        /\ resp[p] = AlreadyTeamed

\* a request whose valid token names an identity of the wrong role
WrongRole(p) ==
    /\ req[p].op # "none"
    /\ Caller(p).id # 0
    /\ \/ /\ Caller(p).role = "participant"
          /\ req[p].op \in {"create_event", "update_event_status", "get_my_events"}
       \/ /\ Caller(p).role = "organizer"
          /\ req[p].op \in {"create_team", "create_submission", "get_my_teams"}

\* C6: a participant's token on an organizer-only operation, and an
\* organizer's token on a participant-only operation, ends with Forbidden
\* whatever the payload and the store, and the step that answers it leaves
\* the store unchanged
RoleGating ==
    [][\A p \in Procs :
          WrongRole(p)' =>
              /\ pc'[p] = "done"
              /\ resp'[p] = Forbidden
              /\ (pc'[p] # pc[p] \/ req'[p] # req[p] \/ resp'[p] # resp[p])
                    => store' = store]_vars

\* C6 witness: a participant was refused updateEventStatus on a stored
\* event that has a team and a submission
ForbiddenOnStoredEvent ==
    \E p \in Procs :
        /\ pc[p] = "done" /\ resp[p] = Forbidden
        /\ req[p].op = "update_event_status" /\ Caller(p).role = "participant"
        /\ EventOf(req[p].event_id).id # 0
        /\ \E t \in teams : t.event_id = req[p].event_id
        /\ \E sb \in submissions : sb.event_id = req[p].event_id

\* an organizer's updateEventStatus for an event it does not own, or for an
\* id no event has
NotOwner(p) ==
    /\ req[p].op = "update_event_status"
    /\ Caller(p).id # 0
    /\ Caller(p).role = "organizer"
    /\ \/ EventOf(req[p].event_id).id = 0
       \/ EventOf(req[p].event_id).organizer_id # Caller(p).id

\* C7: a status changes only in the update step of an organizer who owns
\* the event; an organizer who does not own it gets NotFoundOrUnauthorized,
\* as for an id no event has, and no status changes
OwnerOnlyStatusChange ==
    [][/\ \A e \in events : \A f \in events' :
             (f.id = e.id /\ f.status # e.status) =>
                 \E p \in Procs :
                     /\ pc[p] = "update_event_status_update"
                     /\ pc'[p] = "done"
                     /\ req[p].op = "update_event_status"
                     /\ req[p].event_id = e.id
                     /\ Caller(p).role = "organizer"
                     /\ Caller(p).id = e.organizer_id
       /\ \A p \in Procs :
             (NotOwner(p) /\ pc[p] # "done" /\ pc'[p] # pc[p]) =>
                 /\ pc'[p] = "done"
                 /\ resp'[p] = NotFoundOrUnauthorized
                 /\ events' = events]_vars

\* C7 witness: an organizer was refused on another organizer's event, whose
\* status its owner had changed before
RefusedNotOwner ==
    \E p \in Procs :
        /\ pc[p] = "done" /\ NotOwner(p)
        /\ resp[p] = NotFoundOrUnauthorized
        /\ EventOf(req[p].event_id).id # 0
        /\ EventOf(req[p].event_id).status = "judging"

\* C8: transitions are monotonic forward: an updateEventStatus that
\* succeeds moves the status strictly later in the order, and no status
\* ever moves backward
ForwardOnlyTransitions ==
    [][/\ \A e \in events : \A f \in events' :
             f.id = e.id => Rank(f.status) >= Rank(e.status)
       /\ \A p \in Procs :
             (pc[p] = "update_event_status_update" /\ pc'[p] = "done"
                /\ resp'[p] = Ok) =>
                 Rank(req[p].status) > Rank(EventOf(req[p].event_id).status)]_vars

\* C9: no graph-edge validation: the owner's request passes the lookup
\* whatever the current and the target status are, and its update step
\* succeeds and makes the target the event's status
UpdateSetsAnyStatus ==
    [][\A p \in Procs :
          /\ (/\ pc[p] = "update_event_status_find"
              /\ pc'[p] # pc[p]
              /\ EventOf(req[p].event_id).id # 0
              /\ EventOf(req[p].event_id).organizer_id = Caller(p).id)
                => pc'[p] = "update_event_status_update"
          /\ (pc[p] = "update_event_status_update" /\ pc'[p] # pc[p]) =>
                /\ pc'[p] = "done"
                /\ resp'[p] = Ok
                /\ \E f \in events' :
                      f.id = req[p].event_id /\ f.status = req[p].status]_vars

\* C9 witness: the owner set an event that has a team (so it had been
\* Active or SubmissionsOpen) back to Draft
MovedBackToDraft ==
    \E p \in Procs :
        /\ pc[p] = "done" /\ resp[p] = Ok
        /\ req[p].op = "update_event_status" /\ req[p].status = "draft"
        /\ EventOf(req[p].event_id).status = "draft"
        /\ \E t \in teams : t.event_id = req[p].event_id

\* C10: Completed is terminal: a Completed event keeps its status, and no
\* team or submission is created for it
CompletedIsTerminal ==
    [][\A e \in events :
          e.status = "completed" =>
              /\ \A f \in events' : f.id = e.id => f.status = "completed"
              /\ \A t \in teams' \ teams : t.event_id # e.id
              /\ \A s \in submissions' \ submissions : s.event_id # e.id]_vars

\* C11: the public listing, served to a request that carries no token,
\* returns exactly the stored events whose status is not Draft: every stored
\* event out of Draft is listed and no Draft event is.
PublicListingExact ==
    \A p \in Procs :
        (pc[p] = "done" /\ req[p].op = "get_events")
            => /\ resp[p].code = 200
               /\ resp[p].body = {e \in events : e.status # "draft"}

\* C12: createEvent by an Organizer never ends in error, and its insert adds
\* exactly one event, in Draft and owned by the caller, whatever "status"
\* and "organizer_id" the request body carries.
CreateEventStoresDraftOwned ==
    [][\A p \in Procs :
         /\ (/\ pc'[p] = "done" /\ pc[p] # "done"
             /\ req'[p].op = "create_event"
             /\ Caller(p)'.role = "organizer")
               => /\ pc[p] = "create_event_insert"
                  /\ resp'[p] = Ok
         /\ (pc[p] = "create_event_insert" /\ pc'[p] = "done")
               => \E e \in events' \ events :
                     /\ events' = events \cup {e}
                     /\ e.status = "draft"
                     /\ e.organizer_id = req[p].token.id]_vars

\* C12 witness: organizer 1 sent a body naming status Active and owner 2, and
\* the event stored is in Draft and owned by 1
ForgedBodyStoredAsDraft ==
    \E p \in Procs :
        /\ pc[p] = "done" /\ req[p].op = "create_event" /\ resp[p] = Ok
        /\ req[p].token.id = 1
        /\ req[p].body.status = "active" /\ req[p].body.organizer_id = 2
        /\ \E e \in events : e.organizer_id = 1 /\ e.status = "draft"
        /\ \A e \in events : e.organizer_id # 2 /\ e.status # "active"

\* the token of a request authenticates: signed, not past `exp`, and its id
\* names a stored user
Authenticates(p) ==
    /\ req[p].token.sig
    /\ req[p].token.exp > now
    /\ Caller(p).id # 0

\* C13: authentication is decided before authorization: a guarded request
\* whose token is invalid, expired or names no stored identity ends in a
\* 401 whatever role the operation requires; one whose token authenticates
\* but whose identity lacks the role ends in Forbidden (403), never in a 401.
AuthenticationBeforeAuthorization ==
    \A p \in Procs :
        (pc[p] = "done" /\ req[p].op \in GuardedOps)
            => /\ ~Authenticates(p) => resp[p].code = 401
               /\ (Authenticates(p)
                     /\ Caller(p).role \notin RequiredRoles(req[p].op))
                    => resp[p] = Forbidden
               /\ Authenticates(p) => resp[p].code # 401

\* C13 witness: the participant's expired token on an Organizer operation
\* ends in a 401, not in Forbidden
UnauthenticatedBeatsWrongRole ==
    \E p \in Procs :
        /\ pc[p] = "done" /\ req[p].op = "create_event"
        /\ req[p].token.role = "participant"
        /\ req[p].token.sig /\ req[p].token.exp <= now
        /\ resp[p].code = 401

\* C14: the caller of a guarded operation can tell an expired token from a
\* malformed one: a correctly signed token past its `exp` ends in
\* TokenExpired, a token whose signature does not verify ends in
\* TokenInvalid, and the two responses differ.
ExpiredToldFromInvalid ==
    /\ TokenExpired # TokenInvalid
    /\ \A p \in Procs :
          (pc[p] = "done" /\ req[p].op \in GuardedOps)
              => /\ (req[p].token.sig /\ req[p].token.exp <= now)
                      => resp[p] = TokenExpired
                 /\ ~req[p].token.sig => resp[p] = TokenInvalid

\* C15: a token issued for a registered identity, validated less than 24
\* hours after it was issued, gives back the id and the role of that
\* identity; validated more than 24 hours after, it fails with TokenExpired.
TokenRoundTrip ==
    [][\A p \in Procs :
         (pc[p] = "validate_token" /\ pc'[p] = "done")
            => LET identity == find_one({u \in users : u.id = loc[p].user})
               IN  /\ now < req[p].issued_at + 24
                        => resp'[p] = Body([id |-> identity.id,
                                            role |-> identity.role])
                   /\ now > req[p].issued_at + 24
                        => resp'[p] = TokenExpired]_vars

\* C15 witness: a token validated 25 hours after it was issued failed with
\* TokenExpired
ValidatedAfterWindow ==
    \E p \in Procs :
        /\ pc[p] = "done" /\ req[p].op = "validate"
        /\ now = req[p].issued_at + 25
        /\ resp[p] = TokenExpired

\* a step in which request p ends, as a login
LoginEnds(p) ==
    /\ pc'[p] = "done" /\ req'[p].op = "login"
    /\ <<pc[p], req[p], resp[p]>> # <<pc'[p], req'[p], resp'[p]>>

\* C16: for every registered identity, login with its email and its
\* password succeeds and returns a token for that identity; login with a
\* wrong password fails with the same error as login with an unregistered
\* email, InvalidCredentials.
LoginByEveryIdentity ==
    [][\A p \in Procs :
         LoginEnds(p) =>
            LET named == {u \in users : u.email = req'[p].email}
                right == {u \in named :
                            verify_password(req'[p].password, u.password)}
            IN  /\ \A u \in right :
                      /\ resp'[p].code = 200
                      /\ resp'[p].body.access_token.id = u.id
                /\ right = {} => resp'[p] = InvalidCredentials]_vars

\* a step in which the createTeam request of p ends
CreateTeamEnds(p) ==
    /\ pc[p] \in {"create_team_find_event", "create_team_find_team",
                  "create_team_insert"}
    /\ pc'[p] = "done"

\* C17: with requests one after another, createTeam by a participant who
\* is already on a team of the same accepting event fails with
\* AlreadyTeamed and adds no team; a participant on no team of the
\* accepting event named gets a team of that event, whatever teams of
\* other events it is on.
OneTeamPerEventSequential ==
    [][\A p \in Procs :
         (/\ CreateTeamEnds(p)
          /\ EventOf(req[p].event_id).id # 0
          /\ EventOf(req[p].event_id).status \in Accepting)
            => IF TeamsOf(loc[p].user, req[p].event_id) # {}
               THEN resp'[p] = AlreadyTeamed /\ teams' = teams
               ELSE /\ resp'[p] = Ok
                    /\ \E t \in teams' \ teams :
                          /\ teams' = teams \cup {t}
                          /\ t.event_id = req[p].event_id
                          /\ t.leader_id = loc[p].user]_vars

\* C17 witness: participant 3, leading a team in each of two events, was
\* refused another team of event 1
RefusedSecondTeamOfSameEvent ==
    \E p \in Procs :
        /\ pc[p] = "done" /\ req[p].op = "create_team"
        /\ req[p].event_id = 1 /\ resp[p] = AlreadyTeamed
        /\ EventOf(1).status \in Accepting
        /\ Cardinality(TeamsOf(3, 1)) = 1
        /\ Cardinality(TeamsOf(3, 2)) = 1

\* a step in which the createSubmission request of p ends
CreateSubmissionEnds(p) ==
    /\ pc[p] \in {"create_submission_find_team", "create_submission_find_event",
                  "create_submission_find_existing", "create_submission_insert"}
    /\ pc'[p] = "done"

\* the team a request names, and the submissions stored for it
TeamOf(team_id) == find_one({t \in teams : t.id = team_id})
SubmissionsOf(team_id) == {s \in submissions : s.team_id = team_id}

\* C18: with requests one after another, createSubmission by a member of a
\* team that already has a submission, for an event in SubmissionsOpen,
\* fails with SubmissionAlreadyExists and leaves the stored submissions as
\* they were.
SecondSubmissionRefused ==
    [][\A p \in Procs :
         (/\ CreateSubmissionEnds(p)
          /\ TeamOf(req[p].team_id).id # 0
          /\ loc[p].user \in TeamOf(req[p].team_id).members
          /\ EventOf(TeamOf(req[p].team_id).event_id).status = "submissions_open"
          /\ SubmissionsOf(req[p].team_id) # {})
            => /\ resp'[p] = SubmissionAlreadyExists
               /\ submissions' = submissions]_vars

\* C18 witness: the team of participant 3 has its one submission, the event
\* is in SubmissionsOpen, and the request just served was refused
SubmittedTwice ==
    \E p \in Procs :
        /\ pc[p] = "done" /\ req[p].op = "create_submission"
        /\ resp[p] = SubmissionAlreadyExists
        /\ Cardinality(SubmissionsOf(req[p].team_id)) = 1
        /\ Cardinality(submissions) = 1
        /\ EventOf(TeamOf(req[p].team_id).event_id).status = "submissions_open"

\* a step in which request p ends, as a registration
RegisterEnds(p) ==
    /\ pc'[p] = "done" /\ req'[p].op = "register"
    /\ <<pc[p], req[p], resp[p]>> # <<pc'[p], req'[p], resp'[p]>>

\* C19: with requests one after another, register with an email that is
\* already stored fails with DuplicateIdentity, whatever password and role
\* it carries, and the stored identities (id, role, credential) stay as they
\* were.
DuplicateEmailRefused ==
    [][\A p \in Procs :
         (RegisterEnds(p) /\ \E u \in users : u.email = req'[p].email)
            => /\ resp'[p] = DuplicateIdentity
               /\ users' = users]_vars

\* C19 witness: a registration with the stored email, another password and
\* another role was refused, and the one identity stored has kept its own
DuplicateRefusedOtherRole ==
    \E p \in Procs :
        /\ pc[p] = "done" /\ req[p].op = "register"
        /\ resp[p] = DuplicateIdentity
        /\ Cardinality(users) = 1
        /\ \A u \in users :
              /\ u.email = req[p].email
              /\ u.role # req[p].role
              /\ ~verify_password(req[p].password, u.password)

\* request p takes a step
Steps(p) == <<pc[p], req[p], resp[p]>> # <<pc'[p], req'[p], resp'[p]>>

\* one document is inserted into a collection
Inserted(before, after) ==
    \E d \in after \ before : after = before \cup {d}

\* the operations that write
WritingOps == {"register", "create_event", "update_event_status",
               "create_team", "create_submission"}

\* the status of one stored event is set
StatusSet ==
    \E e \in events : \E status \in EventStatus :
        events' = (events \ {e}) \cup {[e EXCEPT !.status = status]}

\* C20: no partial writes: a request of register, createEvent,
\* updateEventStatus, createTeam or createSubmission writes nothing before
\* its last step; if it ends in an error the store is as it was, and if it
\* succeeds its last step is one insert into one collection or one update
\* of one event, the rest of the store unchanged.
NoPartialWrites ==
    [][\A p \in Procs :
         Steps(p) =>
            IF /\ pc'[p] = "done" /\ resp'[p].code = 200
               /\ req'[p].op \in WritingOps
            THEN \/ Inserted(users, users')
                      /\ UNCHANGED <<events, teams, submissions>>
                 \/ Inserted(events, events')
                      /\ UNCHANGED <<users, teams, submissions>>
                 \/ Inserted(teams, teams')
                      /\ UNCHANGED <<users, events, submissions>>
                 \/ Inserted(submissions, submissions')
                      /\ UNCHANGED <<users, events, teams>>
                 \/ StatusSet /\ UNCHANGED <<users, teams, submissions>>
            ELSE store' = store]_vars

\* C20 witness: the store holds a registered newcomer, an event, a team and
\* a submission, and the request served last was refused
RefusedOnFullStore ==
    \E p \in Procs :
        /\ pc[p] = "done" /\ resp[p].code \notin {0, 200}
        /\ Cardinality(users) = 4
        /\ events # {} /\ teams # {} /\ submissions # {}

SubmissionsByMembersOnly ==
    [][\A p \in Procs :
         /\ (Steps(p) /\ submissions' # submissions)
               => \E s \in submissions' \ submissions :
                     /\ submissions' = submissions \cup {s}
                     /\ TeamOf(s.team_id).id # 0
                     /\ loc[p].user \in TeamOf(s.team_id).members
                     /\ Caller(p).role = "participant"
         /\ (/\ CreateSubmissionEnds(p)
             /\ Caller(p).role = "participant"
             /\ \/ TeamOf(req[p].team_id).id = 0
                \/ Caller(p).id \notin TeamOf(req[p].team_id).members)
               => /\ resp'[p] = NotTeamMember
                  /\ store' = store]_vars

\* C22 witness: participant 4 named the team of participant 3 while its
\* event was in SubmissionsOpen and was refused, and nothing is submitted
OutsiderRefusedWhileOpen ==
    \E p \in Procs :
        /\ pc[p] = "done" /\ req[p].op = "create_submission"
        /\ req[p].token.id = 4 /\ resp[p] = NotTeamMember
        /\ TeamOf(req[p].team_id).id # 0
        /\ TeamOf(req[p].team_id).members = {3}
        /\ EventOf(TeamOf(req[p].team_id).event_id).status = "submissions_open"
        /\ submissions = {}

\* C23: every team has exactly one member, its leader, and so never has
\* more members than the max team size of its event, which is at least 1.
TeamIsItsLeaderWithinSize ==
    \A t \in teams :
        /\ t.leader_id \in t.members
        /\ t.members = {t.leader_id}
        /\ EventOf(t.event_id).id # 0
        /\ EventOf(t.event_id).max_team_size >= 1
        /\ Cardinality(t.members) <= EventOf(t.event_id).max_team_size

\* C24: a stored event keeps its id, its organizer and every field other
\* than its status under every step, and every identity keeps its role; the
\* update of updateEventStatus changes the status of the event named and
\* nothing else: the other events, the teams, the submissions and the
\* identities are as they were.
OnlyStatusOfOneEventChanges ==
    [][/\ \A e \in events :
             \E after \in events' : [after EXCEPT !.status = e.status] = e
       /\ \A u \in users :
             \E after \in users' : after.id = u.id /\ after.role = u.role
       /\ \A p \in Procs :
             (pc[p] = "update_event_status_update" /\ pc'[p] = "done")
                => /\ Cardinality(events') = Cardinality(events)
                   /\ \A e \in events :
                         e.id # req[p].event_id => e \in events'
                   /\ UNCHANGED <<users, teams, submissions>>]_vars

\* C24 witness: event 1, which has a team and a submission, was just set
\* back to Draft, and event 2 is still in SubmissionsOpen
SetBackBesideOpenEvent ==
    \E p \in Procs :
        /\ pc[p] = "done" /\ req[p].op = "update_event_status"
        /\ resp[p] = Ok
        /\ req[p].event_id = 1 /\ req[p].status = "draft"
        /\ EventOf(1).status = "draft"
        /\ EventOf(2).id # 0 /\ EventOf(2).status = "submissions_open"
        /\ \E t \in teams : t.event_id = 1
        /\ \E s \in submissions : s.event_id = 1
====
